---- MODULE Spec2Model ----
(***************************************************************************)
(* Model of the webhook handler of nishi-kasat/tds-project1: the HTTP      *)
(* entry point (handler), the orchestration (processRequest) and its       *)
(* helpers, run against a repository host, a hosting URL and an            *)
(* evaluation callback whose answers are nondeterministic.                 *)
(*                                                                         *)
(* JavaScript strings are sequences of one-character strings, so that      *)
(* toLowerCase, includes and the regular expressions are computed.         *)
(* Times are in milliseconds.                                              *)
(***************************************************************************)
EXTENDS Integers, Sequences, FiniteSets, TLC

\* ------------------------------------------------------------------------
\* Bounds of the model
\* ------------------------------------------------------------------------
MaxRound == 2
MaxAtt == 1
MaxLatency == 1

\* ------------------------------------------------------------------------
\* Program constants
\* ------------------------------------------------------------------------
WaitTimeout == 120000
PollPause == 2000
InitialDelay == 1000
MaxAttempts == 5

\* ------------------------------------------------------------------------
\* JavaScript values
\* ------------------------------------------------------------------------
UNDEF == <<"%undefined%">>

Truthy(v) == v # UNDEF /\ v # <<>>

Upper == <<"A","B","C","D","E","F","G","H","I","J","K","L","M",
           "N","O","P","Q","R","S","T","U","V","W","X","Y","Z">>
Lower == <<"a","b","c","d","e","f","g","h","i","j","k","l","m",
           "n","o","p","q","r","s","t","u","v","w","x","y","z">>
Digits == {"0","1","2","3","4","5","6","7","8","9"}

UpperCase == { Upper[i] : i \in 1..26 }
LowerOf == [c \in UpperCase |-> Lower[CHOOSE i \in 1..26 : Upper[i] = c]]

toLowerCaseChar(c) == IF c \in UpperCase THEN LowerOf[c] ELSE c

toLowerCase(s) == [i \in 1..Len(s) |-> toLowerCaseChar(s[i])]

includes(s, k) ==
  \E i \in 0..(Len(s) - Len(k)) : SubSeq(s, i + 1, i + Len(k)) = k

\* the character class [a-z0-9-] of repoNameFromTask
SlugChars == {Lower[i] : i \in 1..26} \cup Digits \cup {"-"}

RECURSIVE ReplaceRuns(_, _)
ReplaceRuns(s, inRun) ==
  IF s = <<>> THEN <<>>
  ELSE IF Head(s) \in SlugChars
       THEN <<Head(s)>> \o ReplaceRuns(Tail(s), FALSE)
       ELSE (IF inRun THEN <<>> ELSE <<"-">>) \o ReplaceRuns(Tail(s), TRUE)

repoNameFromTask(task) == ReplaceRuns(toLowerCase(task), FALSE)

\* task.split("-").pop(): the part of task after its last hyphen
RECURSIVE LastSegment(_)
LastSegment(s) ==
  IF s = <<>> THEN <<>>
  ELSE IF s[Len(s)] = "-" THEN <<>>
       ELSE LastSegment(SubSeq(s, 1, Len(s) - 1)) \o <<s[Len(s)]>>

\* /^data:.*;base64,(.*)$/s : both .* are greedy, so the capture starts
\* after the LAST ";base64," that lies after the leading "data:"
DataPrefix == <<"d","a","t","a",":">>
Base64Mark == <<";","b","a","s","e","6","4",",">>

MarkAt(uri, i) == i + 7 <= Len(uri) /\ SubSeq(uri, i, i + 7) = Base64Mark

\* variant: the first .* is lazy, the capture starts after the FIRST marker
parseDataUri_FirstMark(uri) ==
  IF Len(uri) >= 5 /\ SubSeq(uri, 1, 5) = DataPrefix
     /\ \E i \in 6..Len(uri) : MarkAt(uri, i)
  THEN LET i == CHOOSE k \in 6..Len(uri) :
                  MarkAt(uri, k) /\ \A m \in 6..(k - 1) : ~MarkAt(uri, m)
       IN SubSeq(uri, i + 8, Len(uri))
  ELSE <<>>

parseDataUri(uri) ==
  IF Len(uri) >= 5 /\ SubSeq(uri, 1, 5) = DataPrefix
     /\ \E i \in 6..Len(uri) : MarkAt(uri, i)
  THEN LET i == CHOOSE k \in 6..Len(uri) :
                  MarkAt(uri, k) /\ \A m \in (k + 1)..Len(uri) : ~MarkAt(uri, m)
       IN SubSeq(uri, i + 8, Len(uri))
  ELSE <<>>

\* Buffer.from(content).toString("base64")
Base64Of(content) == <<"base64(">> \o content \o <<")">>

\* ------------------------------------------------------------------------
\* Template selection.  A bundle is [readme, files]; files is the sequence
\* of [path, content] in the insertion order of the object literal, which
\* is the order Object.entries yields.  The fixed text of a template is one
\* opaque token; interpolated values are spliced in.
\* ------------------------------------------------------------------------
KwCaptcha == <<"c","a","p","t","c","h","a","-","s","o","l","v","e","r">>
KwMarkdown == <<"m","a","r","k","d","o","w","n">>
KwSales == <<"s","a","l","e","s">>
KwGithubUser == <<"g","i","t","h","u","b"," ","u","s","e","r">>

File(path, content) == [path |-> <<path>>, content |-> content]

captchaSolverTemplate ==
  [readme |-> <<"# Captcha Solver">>,
   files |-> << File("index.html", <<"captcha/index.html">>),
                File("script.js", <<"captcha/script.js">>) >>]

\* variant: only round 2 yields the round-2 bundle
markdownTemplate_OnlyRound2(round) ==
  IF round = 2
  THEN [readme |-> <<"# Markdown to HTML Round 2">>,
        files |-> << File("index.html", <<"markdown/2/index.html">>),
                     File("script.js", <<"markdown/2/script.js">>) >>]
  ELSE [readme |-> <<"# Markdown to HTML">>,
        files |-> << File("index.html", <<"markdown/1/index.html">>),
                     File("script.js", <<"markdown/1/script.js">>) >>]

markdownTemplate(round) ==
  IF round = 1
  THEN [readme |-> <<"# Markdown to HTML">>,
        files |-> << File("index.html", <<"markdown/1/index.html">>),
                     File("script.js", <<"markdown/1/script.js">>) >>]
  ELSE [readme |-> <<"# Markdown to HTML Round 2">>,
        files |-> << File("index.html", <<"markdown/2/index.html">>),
                     File("script.js", <<"markdown/2/script.js">>) >>]

\* variant: the whole task is the seed
salesTemplate_WholeTask(round, task) ==
  LET seed == task IN
  IF round = 1
  THEN [readme |-> <<"# Sum of Sales">>,
        files |-> << File("index.html", <<"sales/1/index.html:">> \o seed),
                     File("script.js", <<"sales/1/script.js">>) >>]
  ELSE [readme |-> <<"# Sum of Sales Round 2">>,
        files |-> << File("index.html", <<"sales/2/index.html:">> \o seed),
                     File("script.js", <<"sales/2/script.js">>) >>]

salesTemplate(round, task) ==
  LET seed == LastSegment(task) IN
  IF round = 1
  THEN [readme |-> <<"# Sum of Sales">>,
        files |-> << File("index.html", <<"sales/1/index.html:">> \o seed),
                     File("script.js", <<"sales/1/script.js">>) >>]
  ELSE [readme |-> <<"# Sum of Sales Round 2">>,
        files |-> << File("index.html", <<"sales/2/index.html:">> \o seed),
                     File("script.js", <<"sales/2/script.js">>) >>]

githubUserTemplate(round, task) ==
  LET seed == LastSegment(task) IN
  IF round = 1
  THEN [readme |-> <<"# GitHub User Created">>,
        files |-> << File("index.html", <<"github/1/index.html:">> \o seed),
                     File("script.js", <<"github/1/script.js">>) >>]
  ELSE [readme |-> <<"# GitHub User Created Round 2">>,
        files |-> << File("index.html", <<"github/2/index.html:">> \o seed),
                     File("script.js", <<"github/2/script.js:">> \o seed) >>]

\* variant: the lower-cased brief is embedded
basicTemplate_LowerCased(brief) ==
  [readme |-> <<"# Generic Task App">>,
   files |-> << File("index.html", <<"<pre>">> \o toLowerCase(brief) \o <<"</pre>">>) >>]

basicTemplate(brief) ==
  [readme |-> <<"# Generic Task App">>,
   files |-> << File("index.html", <<"<pre>">> \o brief \o <<"</pre>">>) >>]

\* variant: the sales keyword is tested before the markdown keyword
generateFromBrief_SalesFirst(req) ==
  LET brief == toLowerCase(req.brief) IN
  IF includes(brief, KwCaptcha) THEN captchaSolverTemplate
  ELSE IF includes(brief, KwSales) THEN salesTemplate(req.round, req.task)
  ELSE IF includes(brief, KwMarkdown) THEN markdownTemplate(req.round)
  ELSE IF includes(brief, KwGithubUser) THEN githubUserTemplate(req.round, req.task)
  ELSE basicTemplate(req.brief)

\* generateFromBrief for a request whose brief is a string (and whose task
\* is a string when a template reads it); the throwing cases are Throws
generateFromBrief(req) ==
  LET brief == toLowerCase(req.brief) IN
  IF includes(brief, KwCaptcha) THEN captchaSolverTemplate
  ELSE IF includes(brief, KwMarkdown) THEN markdownTemplate(req.round)
  ELSE IF includes(brief, KwSales) THEN salesTemplate(req.round, req.task)
  ELSE IF includes(brief, KwGithubUser) THEN githubUserTemplate(req.round, req.task)
  ELSE basicTemplate(req.brief)

\* mitLicenseText(): year and owner interpolated into the fixed text
mitLicenseText(owner) == <<"MIT License (c) year ">> \o owner

\* ------------------------------------------------------------------------
\* Inputs
\* ------------------------------------------------------------------------
Reqs == {"r1", "r2"}

\* the request of the single-request specification
Single == {"r1"}

GH_OWNER == <<"N","k">>
Logins == { <<"n","K">>, <<"o","r","g">> }

Methods == {"POST", "GET"}
ConfiguredSecrets == { UNDEF, <<>>, <<"s","1">> }
Secrets == { UNDEF, <<>>, <<"s","1">>, <<"s","2">> }
Tasks == { UNDEF, <<"a","-","1">>, <<"A"," ","1">> }
Briefs == { UNDEF, <<"M","a","r","k","d","o","w","n">>, <<"s","a","l","e","s">>, <<"H","i">> }
Rounds == 1..MaxRound
Email == <<"e","@","x">>
Nonce == <<"n","0">>
EvalUrl == <<"h","t","t","p",":","/","/","e","v">>

GoodUri == <<"d","a","t","a",":","t",";","b","a","s","e","6","4",",","Q","Q">>
BadUri == <<"Q","Q">>
AttName == <<"f">>

\* an entry of request.attachments; nul marks the JSON value null
AttEntries ==
  { [nul |-> TRUE, name |-> UNDEF, url |-> UNDEF],
    [nul |-> FALSE, name |-> UNDEF, url |-> GoodUri],
    [nul |-> FALSE, name |-> AttName, url |-> UNDEF],
    [nul |-> FALSE, name |-> AttName, url |-> GoodUri],
    [nul |-> FALSE, name |-> AttName, url |-> BadUri] }

SeqsUpTo(S, n) == UNION { [1..k -> S] : k \in 0..n }

\* an array that mixes entries to skip with entries to write
OtherName == <<"g">>
MixedAtts ==
  << [nul |-> TRUE, name |-> UNDEF, url |-> UNDEF],
     [nul |-> FALSE, name |-> OtherName, url |-> BadUri],
     [nul |-> FALSE, name |-> UNDEF, url |-> GoodUri],
     [nul |-> FALSE, name |-> AttName, url |-> GoodUri] >>

\* request.attachments: a value that is not an array (UNDEF) or an array
AttLists ==
  { [isArray |-> FALSE, items |-> <<>>], [isArray |-> TRUE, items |-> MixedAtts] }
    \cup { [isArray |-> TRUE, items |-> l] : l \in SeqsUpTo(AttEntries, MaxAtt) }

\* what JSON.parse makes of the request body: it throws ("unparseable"),
\* returns null, or returns a value whose properties can be read (a
\* property a value lacks reads as UNDEF)
ValueBodies ==
  [kind : {"value"}, secret : Secrets, email : {Email}, task : Tasks,
   round : Rounds, nonce : {Nonce}, brief : Briefs,
   evaluation_url : {EvalUrl}, attachments : AttLists]

NoFields(k) ==
  [kind |-> k, secret |-> UNDEF, email |-> UNDEF, task |-> UNDEF,
   round |-> 0, nonce |-> UNDEF, brief |-> UNDEF,
   evaluation_url |-> UNDEF,
   attachments |-> [isArray |-> FALSE, items |-> <<>>]]

Bodies == ValueBodies \cup { NoFields("unparseable"), NoFields("null"), NoFields("value") }

\* ------------------------------------------------------------------------
\* The repository host
\* ------------------------------------------------------------------------
Slugs == { repoNameFromTask(t) : t \in Tasks \ {UNDEF} }

NoFiles == [p \in {} |-> 0]

AbsentRepo == [exists |-> FALSE, files |-> NoFiles, head |-> 0, pages |-> FALSE]

\* a repository as auto_init with license_template creates it
FreshRepo(id) ==
  [exists |-> TRUE,
   files |-> [p \in { <<"README.md">>, <<"LICENSE">> } |-> id],
   head |-> id, pages |-> FALSE]

\* a repository an earlier round has deployed
DeployedRepo(id) ==
  [exists |-> TRUE,
   files |-> [p \in { <<"README.md">>, <<"LICENSE">>, <<"index.html">>, <<"script.js">> } |-> id],
   head |-> id, pages |-> TRUE]

InitialRepos == { AbsentRepo, FreshRepo(1), DeployedRepo(1) }

HasFile(repo, path) == repo.exists /\ path \in DOMAIN repo.files

\* the host accepts a PUT of a file iff the revision marker is the current
\* one (0: no marker, for a path that does not exist)
PutAccepted(repo, path, sha) ==
  /\ repo.exists
  /\ IF path \in DOMAIN repo.files THEN sha = repo.files[path] ELSE sha = 0

Committed(repo, path, id) ==
  [repo EXCEPT !.files = [p \in DOMAIN repo.files \cup {path} |->
                             IF p = path THEN id ELSE repo.files[p]],
               !.head = id]

\* ------------------------------------------------------------------------
\* State
\* ------------------------------------------------------------------------
VARIABLES
  reliable, \* the environment: TRUE when every host call answers as the
            \* host's state dictates and the hosting URL and the callback
            \* are up; FALSE when any remote call may also fail
  pure,     \* the pure function under evaluation: [fun, arg, applied, out]
  secret,   \* process.env.STUDENT_SECRET
  pc,       \* per request: the statement the handler is at
  req,      \* per request: [method, body]
  loc,      \* per request: the local variables of the running functions
  ran,      \* per request: the handler steps that have run
  resp,     \* per request: the HTTP responses sent, in order
  calls,    \* per request: the remote calls made, in order, with outcome
  waits,    \* per request: the backoff delays postWithRetry has slept
  logs,     \* per request: the console.error lines
  host,     \* the repository host: slug -> repository
  nextId    \* the next commit / revision identifier the host hands out

vars == <<reliable, pure, secret, pc, req, loc, ran, resp, calls, waits, logs, host, nextId>>

NoLoc ==
  [repo |-> <<>>, login |-> <<>>, generated |-> <<>>, phase |-> "", i |-> 0,
   w |-> <<>>, fileSha |-> 0, lastCommit |-> 0, pagesUrl |-> <<>>,
   elapsed |-> 0, polled |-> "no", sha |-> 0,
   delay |-> 0, attempt |-> 0]

\* no pure function is under evaluation
NoPure == [fun |-> "none", arg |-> <<>>, applied |-> FALSE, out |-> <<>>]

\* the handler's state before a request has arrived
Idle ==
  /\ pc = [r \in Reqs |-> "idle"]
  /\ req = [r \in Reqs |-> [method |-> "", body |-> NoFields("null")]]
  /\ loc = [r \in Reqs |-> NoLoc]
  /\ ran = [r \in Reqs |-> {}]
  /\ resp = [r \in Reqs |-> <<>>]
  /\ calls = [r \in Reqs |-> <<>>]
  /\ waits = [r \in Reqs |-> <<>>]
  /\ logs = [r \in Reqs |-> <<>>]
  /\ nextId = 2

Init ==
  /\ reliable = FALSE
  /\ pure = NoPure
  /\ secret \in ConfiguredSecrets
  /\ Idle
  /\ host \in [Slugs -> InitialRepos]

Call(api, arg, ok) == [api |-> api, arg |-> arg, ok |-> ok]
Response(status, body) == [status |-> status, body |-> body]

Goto(r, label) == pc' = [pc EXCEPT ![r] = label]
Ran(r, step) == ran' = [ran EXCEPT ![r] = @ \cup {step}]
Respond(r, status, body) == resp' = [resp EXCEPT ![r] = Append(@, Response(status, body))]
\* the answer ok of a host call that succeeds iff accepted holds of the
\* host's state: an unreliable host may fail it all the same
Answers(ok, accepted) == (ok => accepted) /\ (reliable => (accepted => ok))

Remote(r, api, arg, ok) == calls' = [calls EXCEPT ![r] = Append(@, Call(api, arg, ok))]

\* ------------------------------------------------------------------------
\* handler
\* ------------------------------------------------------------------------
\* a request arrives
Receive(r) ==
  /\ pc[r] = "idle"
  /\ \E m \in Methods, b \in Bodies :
       req' = [req EXCEPT ![r] = [method |-> m, body |-> b]]
  /\ Goto(r, "handler")
  /\ UNCHANGED <<reliable, pure, secret, loc, ran, resp, calls, waits, logs, host, nextId>>

\* variant: every method is let through
MethodAllowed_Any(method) == TRUE

MethodAllowed(method) == method = "POST"

\* if (req.method !== "POST") { res.status(405)...; return; }
CheckMethod(r) ==
  /\ pc[r] = "handler"
  /\ IF MethodAllowed(req[r].method)
     THEN Goto(r, "readJson") /\ UNCHANGED resp
     ELSE Goto(r, "done") /\ Respond(r, 405, "Method not allowed")
  /\ Ran(r, "method")
  /\ UNCHANGED <<reliable, pure, secret, req, loc, calls, waits, logs, host, nextId>>

\* const body = await readJson(req): JSON.parse throws on a malformed body
ReadJson(r) ==
  /\ pc[r] = "readJson"
  /\ IF req[r].body.kind = "unparseable"
     THEN Goto(r, "catch")
     ELSE Goto(r, "verify")
  /\ Ran(r, "readJson")
  /\ UNCHANGED <<reliable, pure, secret, req, loc, resp, calls, waits, logs, host, nextId>>

\* variant: the !body.secret test is missing
SecretRejected_NoEmptyTest(body, configured) == body.secret # configured

\* !body.secret || body.secret !== process.env.STUDENT_SECRET
SecretRejected(body, configured) ==
  ~Truthy(body.secret) \/ body.secret # configured

\* reading body.secret throws when body is null
VerifySecret(r) ==
  /\ pc[r] = "verify"
  /\ IF req[r].body.kind = "null"
     THEN Goto(r, "catch") /\ UNCHANGED resp
     ELSE IF SecretRejected(req[r].body, secret)
          THEN Goto(r, "done") /\ Respond(r, 401, "Invalid secret")
          ELSE Goto(r, "ack") /\ UNCHANGED resp
  /\ Ran(r, "verify")
  /\ UNCHANGED <<reliable, pure, secret, req, loc, calls, waits, logs, host, nextId>>

\* variant: processRequest starts without the acknowledgment being sent
Acknowledge_NotSent(r) ==
  /\ pc[r] = "ack"
  /\ Goto(r, "processRequest")
  /\ Ran(r, "ack")
  /\ UNCHANGED <<reliable, pure, secret, req, loc, resp, calls, waits, logs, host, nextId>>

\* res.status(200).json({ status: "ok" }); then processRequest(body) starts
Acknowledge(r) ==
  /\ pc[r] = "ack"
  /\ Respond(r, 200, "ok")
  /\ Goto(r, "processRequest")
  /\ Ran(r, "ack")
  /\ UNCHANGED <<reliable, pure, secret, req, loc, calls, waits, logs, host, nextId>>

\* variant: the error is logged and never answered
Catch_LogOnly(r) ==
  /\ pc[r] = "catch"
  /\ logs' = [logs EXCEPT ![r] = Append(@, "Error handling request:")]
  /\ Goto(r, "done")
  /\ Ran(r, "catch")
  /\ UNCHANGED <<reliable, pure, secret, req, loc, resp, calls, waits, host, nextId>>

\* variant: the 500 is sent without the headersSent test
Catch_Always500(r) ==
  /\ pc[r] = "catch"
  /\ logs' = [logs EXCEPT ![r] = Append(@, "Error handling request:")]
  /\ Respond(r, 500, "Internal server error")
  /\ Goto(r, "done")
  /\ Ran(r, "catch")
  /\ UNCHANGED <<reliable, pure, secret, req, loc, calls, waits, host, nextId>>

\* catch (err): log; if (!res.headersSent) res.status(500)...
Catch(r) ==
  /\ pc[r] = "catch"
  /\ logs' = [logs EXCEPT ![r] = Append(@, "Error handling request:")]
  /\ IF resp[r] = <<>>
     THEN Respond(r, 500, "Internal server error")
     ELSE UNCHANGED resp
  /\ Goto(r, "done")
  /\ Ran(r, "catch")
  /\ UNCHANGED <<reliable, pure, secret, req, loc, calls, waits, host, nextId>>

\* ------------------------------------------------------------------------
\* processRequest: the file writes, in program order
\* ------------------------------------------------------------------------
Write(path, content, isBase64, message) ==
  [path |-> path, content |-> content, isBase64 |-> isBase64, message |-> message]

\* variant: only the name is tested
WellFormedAtt_NameOnly(a) == Truthy(a.name)

\* const { name, url } = a || {}; if (!name || !url) continue;
WellFormedAtt(a) == Truthy(a.name) /\ Truthy(a.url)

\* the first well-formed entry after position j, 0 when there is none
NextAtt(items, j) ==
  IF \E k \in (j + 1)..Len(items) : WellFormedAtt(items[k])
  THEN CHOOSE k \in (j + 1)..Len(items) :
         WellFormedAtt(items[k]) /\ \A m \in (j + 1)..(k - 1) : ~WellFormedAtt(items[m])
  ELSE 0

\* the attachment loop from position j on: the next write, or the loop ends
AttachmentsFrom(request, j) ==
  IF request.attachments.isArray /\ NextAtt(request.attachments.items, j) # 0
  THEN [phase |-> "attachments", i |-> NextAtt(request.attachments.items, j)]
  ELSE [phase |-> "enablePages", i |-> 0]

\* the statement that follows the write at (phase, i)
AfterWrite(request, generated, phase, i) ==
  CASE phase = "license" -> [phase |-> "readme", i |-> 0]
    [] phase = "readme" ->
         IF Len(generated.files) >= 1 THEN [phase |-> "files", i |-> 1]
         ELSE AttachmentsFrom(request, 0)
    [] phase = "files" ->
         IF i < Len(generated.files) THEN [phase |-> "files", i |-> i + 1]
         ELSE AttachmentsFrom(request, 0)
    [] OTHER -> AttachmentsFrom(request, i)

\* variant: README.md is written before LICENSE
WriteAt_ReadmeFirst(request, generated, phase, i) ==
  CASE phase = "license" ->
         Write(<<"README.md">>, generated.readme, FALSE, <<"add README.md">>)
    [] phase = "readme" ->
         Write(<<"LICENSE">>, mitLicenseText(GH_OWNER), FALSE, <<"add LICENSE">>)
    [] phase = "files" ->
         Write(generated.files[i].path, generated.files[i].content, FALSE,
               <<"add ">> \o generated.files[i].path)
    [] OTHER ->
         LET a == request.attachments.items[i] IN
         Write(<<"attachments/">> \o a.name, parseDataUri(a.url), TRUE,
               <<"add attachment ">> \o a.name)

\* the arguments of the writeFile call at (phase, i)
WriteAt(request, generated, phase, i) ==
  CASE phase = "license" ->
         Write(<<"LICENSE">>, mitLicenseText(GH_OWNER), FALSE, <<"add LICENSE">>)
    [] phase = "readme" ->
         Write(<<"README.md">>, generated.readme, FALSE, <<"add README.md">>)
    [] phase = "files" ->
         Write(generated.files[i].path, generated.files[i].content, FALSE,
               <<"add ">> \o generated.files[i].path)
    [] OTHER ->
         LET a == request.attachments.items[i] IN
         Write(<<"attachments/">> \o a.name, parseDataUri(a.url), TRUE,
               <<"add attachment ">> \o a.name)

\* const repo = repoNameFromTask(request.task): throws when task is not a string
StartProcess(r) ==
  /\ pc[r] = "processRequest"
  /\ IF req[r].body.task = UNDEF
     THEN Goto(r, "catch") /\ UNCHANGED loc
     ELSE /\ Goto(r, "ensureRepo")
          /\ loc' = [loc EXCEPT ![r].repo = repoNameFromTask(req[r].body.task)]
  /\ Ran(r, "processRequest")
  /\ UNCHANGED <<reliable, pure, secret, req, resp, calls, waits, logs, host, nextId>>

\* variant: the repository is created without being looked up first
EnsureRepoGet_AlwaysCreate(r) ==
  /\ pc[r] = "ensureRepo"
  /\ Remote(r, "GET repo", loc[r].repo, FALSE)
  /\ Goto(r, "ensureRepo_user")
  /\ UNCHANGED <<reliable, pure, secret, req, loc, ran, resp, waits, logs, host, nextId>>

\* ensureRepo: GET /repos/{owner}/{name}; any failure leads to creation
EnsureRepoGet(r) ==
  /\ pc[r] = "ensureRepo"
  /\ \E ok \in BOOLEAN :
       /\ Answers(ok, host[loc[r].repo].exists)
       /\ Remote(r, "GET repo", loc[r].repo, ok)
       /\ Goto(r, IF ok THEN "generate" ELSE "ensureRepo_user")
  /\ UNCHANGED <<reliable, pure, secret, req, loc, ran, resp, waits, logs, host, nextId>>

\* const me = await gh.request(`/user`)
EnsureRepoUser(r) ==
  /\ pc[r] = "ensureRepo_user"
  /\ \/ /\ ~reliable
        /\ Remote(r, "GET user", <<>>, FALSE)
        /\ Goto(r, "catch")
        /\ UNCHANGED loc
     \/ \E login \in Logins :
          /\ Remote(r, "GET user", login, TRUE)
          /\ loc' = [loc EXCEPT ![r].login = login]
          /\ Goto(r, "ensureRepo_create")
  /\ UNCHANGED <<reliable, pure, secret, req, ran, resp, waits, logs, host, nextId>>

\* me.login.toLowerCase() === owner.toLowerCase() ? /user/repos : /orgs/{owner}/repos
CreateEndpoint(login, owner) ==
  IF toLowerCase(login) = toLowerCase(owner) THEN "POST user/repos" ELSE "POST org/repos"

EnsureRepoCreate(r) ==
  /\ pc[r] = "ensureRepo_create"
  /\ \E ok \in BOOLEAN :
       /\ Answers(ok, ~host[loc[r].repo].exists)
       /\ Remote(r, CreateEndpoint(loc[r].login, GH_OWNER), loc[r].repo, ok)
       /\ IF ok
          THEN /\ host' = [host EXCEPT ![loc[r].repo] = FreshRepo(nextId)]
               /\ nextId' = nextId + 1
               /\ Goto(r, "generate")
          ELSE Goto(r, "catch") /\ UNCHANGED <<host, nextId>>
  /\ UNCHANGED <<reliable, pure, secret, req, loc, ran, resp, waits, logs>>

\* const generated = await generateFromBrief(request): throws when brief is
\* not a string; then the first writeFile call is entered
Generate(r) ==
  /\ pc[r] = "generate"
  /\ IF req[r].body.brief = UNDEF
     THEN Goto(r, "catch") /\ UNCHANGED loc
     ELSE /\ Goto(r, "writeFile")
          /\ loc' = [loc EXCEPT ![r].generated = generateFromBrief(req[r].body),
                                ![r].phase = "license",
                                ![r].w = WriteAt(req[r].body, generateFromBrief(req[r].body), "license", 0)]
  /\ Ran(r, "generate")
  /\ UNCHANGED <<reliable, pure, secret, req, resp, calls, waits, logs, host, nextId>>

\* variant: the fetched revision marker is dropped
WriteFileGet_NoSha(r) ==
  /\ pc[r] = "writeFile"
  /\ \E ok \in BOOLEAN :
       /\ Answers(ok, HasFile(host[loc[r].repo], loc[r].w.path))
       /\ Remote(r, "GET contents", loc[r].w.path, ok)
       /\ loc' = [loc EXCEPT ![r].fileSha = 0]
  /\ Goto(r, "writeFile_put")
  /\ UNCHANGED <<reliable, pure, secret, req, ran, resp, waits, logs, host, nextId>>

\* writeFile: fetch the existing file for its sha; a failure is swallowed
WriteFileGet(r) ==
  /\ pc[r] = "writeFile"
  /\ \E ok \in BOOLEAN :
       /\ Answers(ok, HasFile(host[loc[r].repo], loc[r].w.path))
       /\ Remote(r, "GET contents", loc[r].w.path, ok)
       /\ loc' = [loc EXCEPT ![r].fileSha =
                    IF ok THEN host[loc[r].repo].files[loc[r].w.path] ELSE 0]
  /\ Goto(r, "writeFile_put")
  /\ UNCHANGED <<reliable, pure, secret, req, ran, resp, waits, logs, host, nextId>>

\* { message, content: isBase64 ? content : base64(content) }; if (sha) body.sha = sha
PutBody(w, sha) ==
  [message |-> w.message,
   content |-> IF w.isBase64 THEN w.content ELSE Base64Of(w.content),
   sha |-> sha]

\* variant: a rejected PUT is swallowed and the caller goes on
WriteFilePut_Swallowed(r) ==
  /\ pc[r] = "writeFile_put"
  /\ \E ok \in BOOLEAN :
       LET l == loc[r]
           next == AfterWrite(req[r].body, l.generated, l.phase, l.i)
       IN
       /\ Answers(ok, PutAccepted(host[l.repo], l.w.path, l.fileSha))
       /\ Remote(r, "PUT contents", [path |-> l.w.path, body |-> PutBody(l.w, l.fileSha)], ok)
       /\ IF ok
          THEN /\ host' = [host EXCEPT ![l.repo] = Committed(@, l.w.path, nextId)]
               /\ nextId' = nextId + 1
          ELSE UNCHANGED <<host, nextId>>
       /\ IF next.phase = "enablePages"
          THEN /\ Goto(r, "enablePages")
               /\ loc' = [loc EXCEPT ![r].lastCommit = nextId,
                                     ![r].phase = next.phase,
                                     ![r].i = 0, ![r].w = <<>>, ![r].fileSha = 0]
          ELSE /\ Goto(r, "writeFile")
               /\ loc' = [loc EXCEPT ![r].lastCommit = nextId,
                                     ![r].phase = next.phase,
                                     ![r].i = next.i,
                                     ![r].w = WriteAt(req[r].body, l.generated, next.phase, next.i),
                                     ![r].fileSha = 0]
  /\ UNCHANGED <<reliable, pure, secret, req, ran, resp, waits, logs>>

\* writeFile: the PUT; a failure propagates; on success the caller goes on
\* to its next statement
WriteFilePut(r) ==
  /\ pc[r] = "writeFile_put"
  /\ \E ok \in BOOLEAN :
       LET l == loc[r]
           next == AfterWrite(req[r].body, l.generated, l.phase, l.i)
       IN
       /\ Answers(ok, PutAccepted(host[l.repo], l.w.path, l.fileSha))
       /\ Remote(r, "PUT contents", [path |-> l.w.path, body |-> PutBody(l.w, l.fileSha)], ok)
       /\ IF ok
          THEN /\ host' = [host EXCEPT ![l.repo] = Committed(@, l.w.path, nextId)]
               /\ nextId' = nextId + 1
               /\ IF next.phase = "enablePages"
                  THEN /\ Goto(r, "enablePages")
                       /\ loc' = [loc EXCEPT ![r].lastCommit = nextId,
                                             ![r].phase = next.phase,
                                             ![r].i = 0, ![r].w = <<>>, ![r].fileSha = 0]
                  ELSE /\ Goto(r, "writeFile")
                       /\ loc' = [loc EXCEPT ![r].lastCommit = nextId,
                                             ![r].phase = next.phase,
                                             ![r].i = next.i,
                                             ![r].w = WriteAt(req[r].body, l.generated, next.phase, next.i),
                                             ![r].fileSha = 0]
          ELSE Goto(r, "catch") /\ UNCHANGED <<host, nextId, loc>>
  /\ UNCHANGED <<reliable, pure, secret, req, ran, resp, waits, logs>>

\* ------------------------------------------------------------------------
\* processRequest: hosting, commit, notification
\* ------------------------------------------------------------------------
PagesUrl(owner, repo) == <<"https://">> \o owner \o <<".github.io/">> \o repo \o <<"/">>
RepoUrl(owner, repo) == <<"https://github.com/">> \o owner \o <<"/">> \o repo

\* variant: a failed create propagates, no update is tried
EnablePagesPost_NoFallback(r) ==
  /\ pc[r] = "enablePages"
  /\ \E ok \in BOOLEAN :
       /\ Answers(ok, (host[loc[r].repo].exists /\ ~host[loc[r].repo].pages))
       /\ Remote(r, "POST pages", loc[r].repo, ok)
       /\ IF ok
          THEN /\ host' = [host EXCEPT ![loc[r].repo].pages = TRUE]
               /\ loc' = [loc EXCEPT ![r].pagesUrl = PagesUrl(GH_OWNER, loc[r].repo),
                                     ![r].elapsed = 0]
               /\ Goto(r, "waitForUrl")
          ELSE Goto(r, "catch") /\ UNCHANGED <<host, loc>>
  /\ UNCHANGED <<reliable, pure, secret, req, ran, resp, waits, logs, nextId>>

\* enablePages: POST /repos/{owner}/{repo}/pages; on success waitForUrl is
\* entered (const start = Date.now())
EnablePagesPost(r) ==
  /\ pc[r] = "enablePages"
  /\ \E ok \in BOOLEAN :
       /\ Answers(ok, (host[loc[r].repo].exists /\ ~host[loc[r].repo].pages))
       /\ Remote(r, "POST pages", loc[r].repo, ok)
       /\ IF ok
          THEN /\ host' = [host EXCEPT ![loc[r].repo].pages = TRUE]
               /\ loc' = [loc EXCEPT ![r].pagesUrl = PagesUrl(GH_OWNER, loc[r].repo),
                                     ![r].elapsed = 0]
               /\ Goto(r, "waitForUrl")
          ELSE Goto(r, "enablePages_put") /\ UNCHANGED <<host, loc>>
  /\ UNCHANGED <<reliable, pure, secret, req, ran, resp, waits, logs, nextId>>

\* enablePages: the PUT after a failed POST; its failure propagates
EnablePagesPut(r) ==
  /\ pc[r] = "enablePages_put"
  /\ \E ok \in BOOLEAN :
       /\ Answers(ok, (host[loc[r].repo].exists /\ host[loc[r].repo].pages))
       /\ Remote(r, "PUT pages", loc[r].repo, ok)
       /\ IF ok
          THEN /\ loc' = [loc EXCEPT ![r].pagesUrl = PagesUrl(GH_OWNER, loc[r].repo),
                                     ![r].elapsed = 0]
               /\ Goto(r, "waitForUrl")
          ELSE Goto(r, "catch") /\ UNCHANGED loc
  /\ UNCHANGED <<reliable, pure, secret, req, ran, resp, waits, logs, host, nextId>>

\* variant: the loop condition admits the instant the timeout is reached
WaitContinue_Inclusive(elapsed, timeout) == elapsed <= timeout

\* while (Date.now() - start < timeout)
WaitContinue(elapsed, timeout) == elapsed < timeout

\* how long a fetch of the hosting URL can take
Latencies == { 1000 * k : k \in 0..MaxLatency }

\* waitForUrl, one poll: fetch(url); r.ok returns true; a failed status and
\* an exception (swallowed by the empty catch) both go on to the pause
WaitPoll(r) ==
  /\ pc[r] = "waitForUrl"
  /\ WaitContinue(loc[r].elapsed, WaitTimeout)
  /\ \E lat \in Latencies, outcome \in {"ok", "status", "exception"} :
       /\ reliable => (outcome = "ok" /\ lat = 0)
       /\ loc' = [loc EXCEPT ![r].elapsed = IF outcome = "ok" THEN 0 ELSE @ + lat,
                             ![r].polled = IF outcome = "ok" THEN "ok" ELSE "failed"]
       /\ Goto(r, IF outcome = "ok" THEN "getLatestCommitSha" ELSE "waitForUrl_sleep")
  /\ UNCHANGED <<reliable, pure, secret, req, ran, resp, calls, waits, logs, host, nextId>>

\* await new Promise(r => setTimeout(r, 2000))
WaitSleep(r) ==
  /\ pc[r] = "waitForUrl_sleep"
  /\ loc' = [loc EXCEPT ![r].elapsed = @ + PollPause]
  /\ Goto(r, "waitForUrl")
  /\ UNCHANGED <<reliable, pure, secret, req, ran, resp, calls, waits, logs, host, nextId>>

\* waitForUrl: the loop condition fails; return false
WaitGiveUp(r) ==
  /\ pc[r] = "waitForUrl"
  /\ ~WaitContinue(loc[r].elapsed, WaitTimeout)
  /\ loc' = [loc EXCEPT ![r].elapsed = 0, ![r].polled = "timeout"]
  /\ Goto(r, "getLatestCommitSha")
  /\ UNCHANGED <<reliable, pure, secret, req, ran, resp, calls, waits, logs, host, nextId>>

\* variant: a failed read of the branch head is swallowed and the
\* notification goes out without a commit
GetLatestCommitSha_Swallowed(r) ==
  /\ pc[r] = "getLatestCommitSha"
  /\ \E ok \in BOOLEAN :
       /\ Answers(ok, host[loc[r].repo].exists)
       /\ Remote(r, "GET ref", loc[r].repo, ok)
       /\ loc' = [loc EXCEPT ![r].sha = IF ok THEN host[loc[r].repo].head ELSE 0,
                             ![r].delay = InitialDelay,
                             ![r].attempt = 0]
       /\ Goto(r, "postWithRetry")
  /\ UNCHANGED <<reliable, pure, secret, req, ran, resp, waits, logs, host, nextId>>

\* getLatestCommitSha: GET /repos/{owner}/{repo}/git/ref/heads/main; then
\* postWithRetry is entered (let delay = 1000; i = 0)
GetLatestCommitSha(r) ==
  /\ pc[r] = "getLatestCommitSha"
  /\ \E ok \in BOOLEAN :
       /\ Answers(ok, host[loc[r].repo].exists)
       /\ Remote(r, "GET ref", loc[r].repo, ok)
       /\ IF ok
          THEN /\ loc' = [loc EXCEPT ![r].sha = host[loc[r].repo].head,
                                     ![r].delay = InitialDelay,
                                     ![r].attempt = 0]
               /\ Goto(r, "postWithRetry")
          ELSE Goto(r, "catch") /\ UNCHANGED loc
  /\ UNCHANGED <<reliable, pure, secret, req, ran, resp, waits, logs, host, nextId>>

\* variant: the slug is sent in place of the task
NotifyPayload_Slug(request, owner, repo, sha, pagesUrl) ==
  [email |-> request.email, task |-> repo, round |-> request.round,
   nonce |-> request.nonce, repo_url |-> RepoUrl(owner, repo),
   commit_sha |-> sha, pages_url |-> pagesUrl]

\* the body postWithRetry sends
NotifyPayload(request, owner, repo, sha, pagesUrl) ==
  [email |-> request.email, task |-> request.task, round |-> request.round,
   nonce |-> request.nonce, repo_url |-> RepoUrl(owner, repo),
   commit_sha |-> sha, pages_url |-> pagesUrl]

\* variant: one attempt too many
RetryContinue_OffByOne(i) == i <= MaxAttempts

\* for (let i = 0; i < 5; i++)
RetryContinue(i) == i < MaxAttempts

\* variant: the delay grows by a constant
NextDelay_Linear(delay) == delay + 1000

\* delay *= 2
NextDelay(delay) == delay * 2

\* postWithRetry, one attempt: res.ok returns; a failed status goes on to
\* the backoff; an exception is logged and goes on to the backoff
PostAttempt(r) ==
  /\ pc[r] = "postWithRetry"
  /\ RetryContinue(loc[r].attempt)
  /\ \E outcome \in {"ok", "status", "exception"} :
       /\ reliable => outcome = "ok"
       /\ Remote(r, "POST eval",
                 [url |-> req[r].body.evaluation_url,
                  body |-> NotifyPayload(req[r].body, GH_OWNER, loc[r].repo,
                                         loc[r].sha, loc[r].pagesUrl)],
                 outcome = "ok")
       /\ logs' = [logs EXCEPT ![r] =
                     IF outcome = "exception" THEN Append(@, "Eval post failed:") ELSE @]
       /\ Goto(r, IF outcome = "ok" THEN "done" ELSE "postWithRetry_sleep")
  /\ UNCHANGED <<reliable, pure, secret, req, loc, ran, resp, waits, host, nextId>>

\* variant: the attempt is not counted
PostSleep_NoCount(r) ==
  /\ pc[r] = "postWithRetry_sleep"
  /\ waits' = [waits EXCEPT ![r] = Append(@, loc[r].delay)]
  /\ loc' = [loc EXCEPT ![r].delay = NextDelay(@)]
  /\ Goto(r, "postWithRetry")
  /\ UNCHANGED <<reliable, pure, secret, req, ran, resp, calls, logs, host, nextId>>

\* await new Promise(r => setTimeout(r, delay)); delay *= 2; i++
PostSleep(r) ==
  /\ pc[r] = "postWithRetry_sleep"
  /\ waits' = [waits EXCEPT ![r] = Append(@, loc[r].delay)]
  /\ loc' = [loc EXCEPT ![r].delay = NextDelay(@), ![r].attempt = @ + 1]
  /\ Goto(r, "postWithRetry")
  /\ UNCHANGED <<reliable, pure, secret, req, ran, resp, calls, logs, host, nextId>>

\* postWithRetry: the loop ends after the last attempt; return
PostGiveUp(r) ==
  /\ pc[r] = "postWithRetry"
  /\ ~RetryContinue(loc[r].attempt)
  /\ Goto(r, "done")
  /\ UNCHANGED <<reliable, pure, secret, req, loc, ran, resp, calls, waits, logs, host, nextId>>

\* ------------------------------------------------------------------------
\* Specification
\* ------------------------------------------------------------------------
Next ==
  \E r \in Single :
    \/ Receive(r)
    \/ CheckMethod(r)
    \/ ReadJson(r)
    \/ VerifySecret(r)
    \/ Acknowledge(r)
    \/ Catch(r)
    \/ StartProcess(r)
    \/ EnsureRepoGet(r)
    \/ EnsureRepoUser(r)
    \/ EnsureRepoCreate(r)
    \/ Generate(r)
    \/ WriteFileGet(r)
    \/ WriteFilePut(r)
    \/ EnablePagesPost(r)
    \/ EnablePagesPut(r)
    \/ WaitPoll(r)
    \/ WaitSleep(r)
    \/ WaitGiveUp(r)
    \/ GetLatestCommitSha(r)
    \/ PostAttempt(r)
    \/ PostSleep(r)
    \/ PostGiveUp(r)

Spec == Init /\ [][Next]_vars

\* ------------------------------------------------------------------------
\* Two requests for the same repository, handled concurrently by the
\* runtime, against a reliable environment
\* ------------------------------------------------------------------------
AcceptedSecret == <<"s","1">>

\* well-formed task requests that carry the configured secret
AcceptedBodies ==
  { b \in ValueBodies :
      /\ b.secret = AcceptedSecret
      /\ b.task # UNDEF
      /\ b.brief = <<"M","a","r","k","d","o","w","n">>
      /\ ~b.attachments.isArray }

\* a request that will be accepted arrives
ReceiveAccepted(r) ==
  /\ pc[r] = "idle"
  /\ \E b \in AcceptedBodies :
       req' = [req EXCEPT ![r] = [method |-> "POST", body |-> b]]
  /\ Goto(r, "handler")
  /\ UNCHANGED <<reliable, pure, secret, loc, ran, resp, calls, waits, logs, host, nextId>>

InitTwo ==
  /\ reliable = TRUE
  /\ pure = NoPure
  /\ secret = AcceptedSecret
  /\ Idle
  /\ host \in [Slugs -> InitialRepos]

NextTwo ==
  \E r \in Reqs :
    \/ ReceiveAccepted(r)
    \/ CheckMethod(r)
    \/ ReadJson(r)
    \/ VerifySecret(r)
    \/ Acknowledge(r)
    \/ Catch(r)
    \/ StartProcess(r)
    \/ EnsureRepoGet(r)
    \/ EnsureRepoUser(r)
    \/ EnsureRepoCreate(r)
    \/ Generate(r)
    \/ WriteFileGet(r)
    \/ WriteFilePut(r)
    \/ EnablePagesPost(r)
    \/ EnablePagesPut(r)
    \/ WaitPoll(r)
    \/ GetLatestCommitSha(r)
    \/ PostAttempt(r)

SpecTwo == InitTwo /\ [][NextTwo]_vars

\* ------------------------------------------------------------------------
\* One accepted request against an unreliable environment in which every
\* network call returns or fails and the clock advances: a step of the
\* handler that can be taken is eventually taken
\* ------------------------------------------------------------------------
HandlerStep(r) ==
  \/ CheckMethod(r)
  \/ ReadJson(r)
  \/ VerifySecret(r)
  \/ Acknowledge(r)
  \/ Catch(r)
  \/ StartProcess(r)
  \/ EnsureRepoGet(r)
  \/ EnsureRepoUser(r)
  \/ EnsureRepoCreate(r)
  \/ Generate(r)
  \/ WriteFileGet(r)
  \/ WriteFilePut(r)
  \/ EnablePagesPost(r)
  \/ EnablePagesPut(r)
  \/ WaitPoll(r)
  \/ WaitSleep(r)
  \/ WaitGiveUp(r)
  \/ GetLatestCommitSha(r)
  \/ PostAttempt(r)
  \/ PostSleep(r)
  \/ PostGiveUp(r)

InitFair ==
  /\ reliable = FALSE
  /\ pure = NoPure
  /\ secret = AcceptedSecret
  /\ Idle
  /\ host \in [Slugs -> InitialRepos]

NextFair == \E r \in Single : ReceiveAccepted(r) \/ HandlerStep(r)

SpecFair ==
  InitFair /\ [][NextFair]_vars /\ \A r \in Single : WF_vars(HandlerStep(r))

\* ------------------------------------------------------------------------
\* The request handlers of the repository: a request is served by the
\* orchestrating handler or by the second default export of
\* src/api/endpoint.js; only the synchronous part is followed
\* ------------------------------------------------------------------------
\* process.env.X || "missing"
OrMissing(v) == IF Truthy(v) THEN v ELSE <<"missing">>

\* { secret_seen_by_server: ..., owner_seen_by_server: ... }
DiagnosticBody(configured, owner) ==
  [secret_seen_by_server |-> OrMissing(configured),
   owner_seen_by_server |-> OrMissing(owner)]

\* the second default export: res.status(200).json({...}) for every request
DiagnosticHandler(r) ==
  /\ pc[r] = "handler"
  /\ Respond(r, 200, DiagnosticBody(secret, GH_OWNER))
  /\ Goto(r, "done")
  /\ Ran(r, "diagnostic")
  /\ UNCHANGED <<reliable, pure, secret, req, loc, calls, waits, logs, host, nextId>>

NextHandlers ==
  \E r \in Single :
    \/ Receive(r)
    \/ DiagnosticHandler(r)
    \/ CheckMethod(r)
    \/ ReadJson(r)
    \/ VerifySecret(r)
    \/ Acknowledge(r)
    \/ Catch(r)

SpecHandlers == Init /\ [][NextHandlers]_vars

\* ------------------------------------------------------------------------
\* The pure functions, each applied to one input drawn from a bounded set
\* ------------------------------------------------------------------------
MaxPayload == 2
MaxTask == 3
MaxParts == 2
MaxGenRound == 4

Base64Chars == {"A", "z", "0", "+", "/", "="}
Payloads == SeqsUpTo(Base64Chars, MaxPayload)

\* mime types, one of them with parameters that spell the marker itself
Mimes == { <<>>, <<"t","e","x","t","/","p","l","a","i","n">>, <<"a",";","b","a","s","e","6","4",",","b">>, <<"i","m","a","g","e","/","p","n","g",";","c","h","a","r","s","e","t","=","x">> }

DataUri(m, p) == DataPrefix \o m \o Base64Mark \o p

\* strings that are not data URIs
NotDataUris ==
  { <<"h","e","l","l","o">>, <<"d","a","t","a",":","t","e","x","t","/","p","l","a","i","n",",","A","A">>, <<"D","a","t","a",":","t",";","b","a","s","e","6","4",",","A","A">>, <<"x","d","a","t","a",":","t",";","b","a","s","e","6","4",",","A","A">>, <<"d","a","t","a",":","t",";","b","a","s","e","6","4">>, <<"d","a","t","a",";","b","a","s","e","6","4",",","A","A">> }

UriInputs ==
  { DataUri(m, p) : m \in Mimes, p \in Payloads } \cup Payloads \cup NotDataUris

TaskChars == {"A", "b", "1", "-", " ", "_"}
TaskInputs == SeqsUpTo(TaskChars, MaxTask)

\* briefs: up to MaxParts fragments, keywords in mixed case among them
BriefParts ==
  { <<"c","a","p","t","c","h","a","-","s","o","l","v","e","r">>, <<"M","a","r","k","d","o","w","n">>, <<"S","A","L","E","S">>, <<"G","i","t","H","u","b"," ","U","s","e","r">>, <<"s","a","l","e">>, <<"H","i"," ">> }

RECURSIVE Concat(_)
Concat(parts) == IF parts = <<>> THEN <<>> ELSE Head(parts) \o Concat(Tail(parts))

BriefInputs == { Concat(parts) : parts \in SeqsUpTo(BriefParts, MaxParts) }

\* the fields of a request that generateFromBrief does not read
GenOthers ==
  { [email |-> Email, nonce |-> Nonce,
     attachments |-> [isArray |-> FALSE, items |-> <<>>]],
    [email |-> <<"f","@","y">>, nonce |-> <<"n","1">>,
     attachments |-> [isArray |-> TRUE, items |-> <<>>]] }

\* rounds, some beyond the two a template defines
GenRounds == 1..MaxGenRound

GenTasks == { <<"a","-","1">>, <<"b","-","1">>, <<"a","-","2">> }

GenRequests ==
  { [kind |-> "value", secret |-> AcceptedSecret, email |-> o.email,
     task |-> t, round |-> rd, nonce |-> o.nonce, brief |-> b,
     evaluation_url |-> EvalUrl, attachments |-> o.attachments] :
      o \in GenOthers, t \in GenTasks, rd \in GenRounds, b \in BriefInputs }

\* the request whose only attachment is named AttName and has the given url
AttachmentRequest(url) ==
  [NoFields("value") EXCEPT
     !.attachments = [isArray |-> TRUE,
                      items |-> <<[nul |-> FALSE, name |-> AttName, url |-> url]>>]]

\* the bodies of the PUTs the attachment loop of processRequest issues
RECURSIVE AttachmentPuts(_, _)
AttachmentPuts(request, j) ==
  LET nxt == AttachmentsFrom(request, j) IN
  IF nxt.phase = "attachments"
  THEN LET w == WriteAt(request, <<>>, "attachments", nxt.i) IN
       <<[path |-> w.path, body |-> PutBody(w, 0)]>> \o AttachmentPuts(request, nxt.i)
  ELSE <<>>

Pure(fun, arg) == [fun |-> fun, arg |-> arg, applied |-> FALSE, out |-> <<>>]

InitPure ==
  /\ reliable = TRUE
  /\ secret = AcceptedSecret
  /\ Idle
  /\ host = [s \in Slugs |-> AbsentRepo]
  /\ \/ \E uri \in UriInputs : pure = Pure("parseDataUri", uri)
     \/ \E task \in TaskInputs : pure = Pure("repoNameFromTask", task)
     \/ \E a \in GenRequests, b \in GenRequests :
          a.brief = b.brief /\ pure = Pure("generateFromBrief", <<a, b>>)

Applied(out) ==
  /\ ~pure.applied
  /\ pure' = [pure EXCEPT !.applied = TRUE, !.out = out]
  /\ UNCHANGED <<reliable, secret, pc, req, loc, ran, resp, calls, waits, logs, host, nextId>>

\* const { base64 } = parseDataUri(url), and the write the attachment loop
\* makes of it
ApplyParseDataUri ==
  /\ pure.fun = "parseDataUri"
  /\ Applied([base64 |-> parseDataUri(pure.arg),
              puts |-> AttachmentPuts(AttachmentRequest(pure.arg), 0)])

ApplyRepoNameFromTask ==
  /\ pure.fun = "repoNameFromTask"
  /\ Applied(repoNameFromTask(pure.arg))

\* generateFromBrief, for each of two requests with the same brief
ApplyGenerateFromBrief ==
  /\ pure.fun = "generateFromBrief"
  /\ Applied(<<generateFromBrief(pure.arg[1]), generateFromBrief(pure.arg[2])>>)

NextPure ==
  \/ ApplyParseDataUri
  \/ ApplyRepoNameFromTask
  \/ ApplyGenerateFromBrief

SpecPure == InitPure /\ [][NextPure]_vars

\* ========================================================================
\* Properties
\* ========================================================================
Last(q) == q[Len(q)]
IsPrefix(a, b) == Len(a) <= Len(b) /\ SubSeq(b, 1, Len(a)) = a
Statuses(r) == [k \in 1..Len(resp[r]) |-> resp[r][k].status]
Apis(r) == [k \in 1..Len(calls[r]) |-> calls[r][k].api]
HasCall(r, api) == \E k \in 1..Len(calls[r]) : calls[r][k].api = api
Arrived(r) == pc[r] # "idle"
Body(r) == req[r].body
IsPost(r) == req[r].method = "POST"

\* C1: a POST whose body carries no secret, an empty secret or a secret
\* other than the configured one (also when none is configured) is answered
\* 401 "Invalid secret" and nothing else: no acknowledgment, no
\* orchestration, no remote call.
C1_BadSecret(r) ==
  /\ IsPost(r)
  /\ Body(r).kind = "value"
  /\ (Body(r).secret = UNDEF \/ Body(r).secret = <<>> \/ Body(r).secret # secret)

C1_BadSecretRejected ==
  \A r \in Reqs :
    (Arrived(r) /\ C1_BadSecret(r)) =>
      /\ calls[r] = <<>>
      /\ ran[r] \cap {"ack", "processRequest", "catch"} = {}
      /\ pc[r] \in {"handler", "readJson", "verify", "done"}
      /\ resp[r] = IF pc[r] = "done"
                   THEN << Response(401, "Invalid secret") >> ELSE <<>>

C1_Witness ==
  \E r \in Reqs :
    /\ pc[r] = "done" /\ IsPost(r) /\ Body(r).kind = "value"
    /\ secret = UNDEF /\ Body(r).secret = <<"s","1">>
    /\ Statuses(r) = <<401>>

\* C2: the 200 acknowledgment precedes orchestration: whenever a request
\* has made a remote call, or has entered processRequest, its response
\* 200 "ok" has already been sent.
C2_AckBeforeOrchestration ==
  \A r \in Reqs :
    /\ (calls[r] # <<>> \/ "processRequest" \in ran[r] \/ pc[r] = "processRequest")
         => resp[r] = << Response(200, "ok") >>
    /\ (Arrived(r) /\ IsPost(r) /\ Body(r).kind = "value" /\ ~C1_BadSecret(r)
        /\ pc[r] \notin {"handler", "readJson", "verify", "ack"})
         => resp[r] = << Response(200, "ok") >>

C2_Witness ==
  \E r \in Reqs :
    /\ Len(calls[r]) = 1 /\ calls[r][1].api = "GET repo"
    /\ Statuses(r) = <<200>>

\* C3: a request of any method but POST is answered 405; its body is not
\* read, its secret is not checked, and it makes no remote call.
C3_MethodNotAllowed ==
  \A r \in Reqs :
    (Arrived(r) /\ ~IsPost(r)) =>
      /\ ran[r] \subseteq {"method"}
      /\ calls[r] = <<>>
      /\ pc[r] \in {"handler", "done"}
      /\ resp[r] = IF pc[r] = "done"
                   THEN << Response(405, "Method not allowed") >> ELSE <<>>

C3_Witness ==
  \E r \in Reqs :
    /\ pc[r] = "done" /\ req[r].method = "GET"
    /\ Body(r).kind = "value" /\ Body(r).secret = secret /\ Truthy(secret)
    /\ Statuses(r) = <<405>>

\* C4: a POST whose body is not parseable JSON, or parses to null, is
\* answered 500 "Internal server error"; no orchestration step and no
\* remote call runs for it.
C4_ThrowsBeforeAck(r) ==
  IsPost(r) /\ Body(r).kind \in {"unparseable", "null"}

C4_ErrorBeforeAck ==
  \A r \in Reqs :
    (Arrived(r) /\ C4_ThrowsBeforeAck(r)) =>
      /\ calls[r] = <<>>
      /\ ran[r] \cap {"ack", "processRequest", "generate"} = {}
      /\ resp[r] = IF pc[r] = "done"
                   THEN << Response(500, "Internal server error") >> ELSE <<>>

C4_Witness ==
  \E r \in Reqs :
    /\ pc[r] = "done" /\ IsPost(r) /\ Body(r).kind = "null"
    /\ "verify" \in ran[r]
    /\ Statuses(r) = <<500>>

\* C5: a request gets exactly one response: never two, and one once the
\* handler has returned; an error after the acknowledgment is logged and
\* leaves the single response 200; a 500 is the only response of its
\* request.
C5_OneResponse ==
  \A r \in Reqs :
    /\ Len(resp[r]) <= 1
    /\ pc[r] = "done" => Len(resp[r]) = 1
    /\ ("catch" \in ran[r] /\ "ack" \in ran[r]) =>
         /\ resp[r] = << Response(200, "ok") >>
         /\ Last(logs[r]) = "Error handling request:"
    /\ (\E k \in 1..Len(resp[r]) : resp[r][k].status = 500) =>
         (Statuses(r) = <<500>> /\ "ack" \notin ran[r])

C5_Witness ==
  \E r \in Reqs :
    /\ pc[r] = "done" /\ "catch" \in ran[r] /\ "ack" \in ran[r]
    /\ calls[r] # <<>> /\ ~Last(calls[r]).ok
    /\ Last(calls[r]).api = "PUT contents"
    /\ Statuses(r) = <<200>>

\* the paths of the file writes the host has accepted, in order
PutPaths(r) ==
  LET puts == SelectSeq(calls[r], LAMBDA c : c.api = "PUT contents" /\ c.ok)
  IN [k \in 1..Len(puts) |-> puts[k].arg.path]

\* the writes a request asks for: LICENSE, README.md, the bundle's files in
\* mapping order, the attachments that have a name and a url in request order
WantedAttachments(request) ==
  IF request.attachments.isArray
  THEN SelectSeq(request.attachments.items,
                 LAMBDA a : ~a.nul /\ a.name \notin {UNDEF, <<>>} /\ a.url \notin {UNDEF, <<>>})
  ELSE <<>>

ExpectedPaths(request) ==
  LET files == generateFromBrief(request).files
      atts == WantedAttachments(request)
  IN << <<"LICENSE">>, <<"README.md">> >>
       \o [k \in 1..Len(files) |-> files[k].path]
       \o [k \in 1..Len(atts) |-> <<"attachments/">> \o atts[k].name]

\* the position of a remote operation in the workflow (the hosting poll,
\* which is not a call of the log, is stage 4)
Stage(api) ==
  CASE api \in {"GET repo", "GET user", "POST user/repos", "POST org/repos"} -> 1
    [] api \in {"GET contents", "PUT contents"} -> 2
    [] api \in {"POST pages", "PUT pages"} -> 3
    [] api = "GET ref" -> 5
    [] OTHER -> 6

Notified(r) == pc[r] = "done" /\ calls[r] # <<>> /\ Last(calls[r]).api = "POST eval" /\ Last(calls[r]).ok

\* C6: the remote operations of a request occur in workflow order:
\* repository, file writes (each a fetch of the path then its PUT), hosting,
\* poll, branch head, notification; the accepted writes are at every moment
\* a prefix of LICENSE, README.md, bundle files, well-formed attachments and
\* are all of them once hosting is enabled; a notified markdown round-1
\* request without attachments has written exactly LICENSE, README.md,
\* index.html, script.js.
C6_OperationOrder ==
  \A r \in Reqs :
    /\ \A k \in 1..(Len(calls[r]) - 1) :
         LET cur == Stage(calls[r][k].api)
             next == Stage(calls[r][k + 1].api)
         IN /\ cur <= next
            /\ cur < next => (next = cur + 1 \/ (cur = 3 /\ next = 5))
    /\ \A k \in 1..Len(calls[r]) :
         calls[r][k].api = "PUT contents" =>
           /\ k > 1
           /\ calls[r][k - 1].api = "GET contents"
           /\ calls[r][k - 1].arg = calls[r][k].arg.path
    /\ HasCall(r, "GET contents") =>
         LET paths == PutPaths(r)
             expected == ExpectedPaths(Body(r))
         IN /\ calls[r][1].api = "GET repo"
            /\ IsPrefix(paths, expected)
            /\ (HasCall(r, "POST pages") \/ pc[r] = "enablePages") => paths = expected
    /\ (HasCall(r, "POST pages") \/ pc[r] = "enablePages") => HasCall(r, "GET contents")
    /\ pc[r] \in {"waitForUrl", "waitForUrl_sleep"} =>
         (Stage(Last(calls[r]).api) = 3 /\ Last(calls[r]).ok)
    /\ HasCall(r, "GET ref") => loc[r].polled \in {"ok", "timeout"}
    /\ HasCall(r, "POST eval") =>
         \E k \in 1..Len(calls[r]) : calls[r][k].api = "GET ref" /\ calls[r][k].ok
    /\ (Notified(r) /\ includes(toLowerCase(Body(r).brief), KwMarkdown)
        /\ Body(r).round = 1 /\ WantedAttachments(Body(r)) = <<>>) =>
         PutPaths(r) = << <<"LICENSE">>, <<"README.md">>, <<"index.html">>, <<"script.js">> >>

C6_Witness ==
  \E r \in Reqs :
    /\ Notified(r)
    /\ Body(r).round = 1 /\ Body(r).brief = <<"M","a","r","k","d","o","w","n">>
    /\ PutPaths(r) = << <<"LICENSE">>, <<"README.md">>, <<"index.html">>, <<"script.js">> >>
    /\ calls[r][1].api = "GET repo" /\ calls[r][1].ok

\* C7: every notification carries the request's email, task, round and
\* nonce, the repository and hosting URLs of (owner, slug), and the commit
\* the request's last file write created, which is the branch head.
C7_NotificationPayload ==
  \A r \in Reqs :
    HasCall(r, "POST eval") =>
    LET slug == repoNameFromTask(Body(r).task)
        paths == PutPaths(r)
        expected == ExpectedPaths(Body(r))
    IN
    \A k \in 1..Len(calls[r]) :
      calls[r][k].api = "POST eval" =>
        LET p == calls[r][k].arg.body
        IN /\ calls[r][k].arg.url = Body(r).evaluation_url
           /\ p.email = Body(r).email
           /\ p.task = Body(r).task
           /\ p.round = Body(r).round
           /\ p.nonce = Body(r).nonce
           /\ p.repo_url = <<"https://github.com/">> \o GH_OWNER \o <<"/">> \o slug
           /\ p.pages_url = <<"https://">> \o GH_OWNER \o <<".github.io/">> \o slug \o <<"/">>
           /\ paths = expected
           /\ p.commit_sha = loc[r].lastCommit
           /\ p.commit_sha = host[slug].head
           /\ p.commit_sha = host[slug].files[Last(paths)]

C7_Witness ==
  \E r \in Reqs :
    /\ Notified(r)
    /\ Body(r).task = <<"A"," ","1">>
    /\ Body(r).round = 2
    /\ Len(PutPaths(r)) = 5
    /\ Last(calls[r]).arg.body.commit_sha = host[<<"a","-","1">>].head

\* the notification attempts of a request, in order
EvalCalls(r) == SelectSeq(calls[r], LAMBDA c : c.api = "POST eval")

RECURSIVE Pow2(_)
Pow2(n) == IF n = 0 THEN 1 ELSE 2 * Pow2(n - 1)

\* the waits before attempts 2..n+1: 1 s, 2 s, 4 s, ...
Doubling(n) == [k \in 1..n |-> 1000 * Pow2(k - 1)]

\* C8: a callback that fails N times (0 <= N <= 4) and then succeeds gets
\* exactly N+1 attempts, separated by waits of 1 s, 2 s, 4 s, ..., and
\* nothing follows the successful attempt: it is the last call, no wait
\* follows it and the handler is done.
C8_RetryUntilSuccess ==
  \A r \in Reqs :
    \A k \in 1..Len(calls[r]) :
      (calls[r][k].api = "POST eval" /\ calls[r][k].ok) =>
        LET n == Len(EvalCalls(r)) - 1 IN
        /\ k = Len(calls[r])
        /\ pc[r] = "done"
        /\ n \in 0..4
        /\ \A j \in 1..n : ~EvalCalls(r)[j].ok
        /\ waits[r] = Doubling(n)

C8_Witness ==
  \E r \in Reqs :
    /\ Notified(r)
    /\ Len(EvalCalls(r)) = 5
    /\ waits[r] = <<1000, 2000, 4000, 8000>>

\* C9: at most 5 notification attempts are made; when all 5 fail
\* postWithRetry returns without raising and the request ends there, the
\* failed fifth attempt being its last remote call.
C9_RetryBudget ==
  \A r \in Reqs :
    /\ Len(EvalCalls(r)) <= 5
    /\ HasCall(r, "POST eval") =>
         /\ "catch" \notin ran[r]
         /\ pc[r] \in {"postWithRetry", "postWithRetry_sleep", "done"}
         /\ Last(calls[r]).api = "POST eval"
         /\ Statuses(r) = <<200>>
    /\ (pc[r] = "done" /\ HasCall(r, "POST eval") /\ ~Last(calls[r]).ok) =>
         /\ Len(EvalCalls(r)) = 5
         /\ \A j \in 1..5 : ~EvalCalls(r)[j].ok
         /\ "Error handling request:" \notin { logs[r][j] : j \in 1..Len(logs[r]) }

C9_Witness ==
  \E r \in Reqs :
    /\ pc[r] = "done"
    /\ Len(EvalCalls(r)) = 5
    /\ ~Last(calls[r]).ok
    /\ Len(logs[r]) = 5

\* C10: the hosting poll pauses 2 s after an unsuccessful poll (failed
\* status or exception alike, never an error), leaves the loop as soon as
\* a poll succeeds, starts no poll once 120 s have elapsed, and after a
\* timeout the request still reads the branch head and notifies.
C10_Waiting(r) == pc[r] \in {"waitForUrl", "waitForUrl_sleep"}

C10_PollStep(r) ==
  /\ (pc[r] = "waitForUrl" /\ pc'[r] # "waitForUrl") =>
       IF loc[r].elapsed < 120000
       THEN \/ pc'[r] = "getLatestCommitSha" /\ loc'[r].polled = "ok"
            \/ pc'[r] = "waitForUrl_sleep" /\ loc'[r].polled = "failed"
       ELSE pc'[r] = "getLatestCommitSha" /\ loc'[r].polled = "timeout"
  /\ (pc[r] = "waitForUrl_sleep" /\ pc'[r] # "waitForUrl_sleep") =>
       (pc'[r] = "waitForUrl" /\ loc'[r].elapsed = loc[r].elapsed + 2000)
  /\ (pc[r] = "getLatestCommitSha" /\ pc'[r] # "getLatestCommitSha") =>
       calls'[r] = Append(calls[r], Call("GET ref", loc[r].repo, Last(calls'[r]).ok))

C10_PollState(r) ==
  /\ C10_Waiting(r) => ("catch" \notin ran[r] /\ loc[r].polled \notin {"ok", "timeout"})
  /\ (loc[r].polled = "timeout" /\ pc[r] = "done" /\ "catch" \notin ran[r]) =>
       /\ HasCall(r, "GET ref")
       /\ Last(calls[r]).api = "POST eval"

C10_HostingWait ==
  /\ [](\A r \in Reqs : C10_PollState(r))
  /\ [][\A r \in Reqs : C10_PollStep(r)]_vars

C10_Witness ==
  \E r \in Reqs :
    /\ Notified(r)
    /\ loc[r].polled = "timeout"

\* C11: ensureRepo is idempotent against a reliable host: a call that starts
\* after another call for the same name has completed successfully finds
\* the repository with its lookup, returns with that same repository,
\* issues no creation call and leaves the host unchanged; a request whose
\* lookup succeeded never issues a creation call, and at most one creation
\* call per repository name ever succeeds.
CreationApis == {"POST user/repos", "POST org/repos"}

CreationCalls(r) == SelectSeq(calls[r], LAMBDA c : c.api \in CreationApis)

Provisioned(r) ==
  \E k \in 1..Len(calls[r]) :
    calls[r][k].ok /\ calls[r][k].api \in CreationApis \cup {"GET repo"}

C11_SecondCall(r, q) ==
  (/\ pc[r] = "ensureRepo" /\ pc'[r] # "ensureRepo"
   /\ Provisioned(q) /\ loc[q].repo = loc[r].repo) =>
    /\ pc'[r] = "generate"
    /\ calls'[r] = <<Call("GET repo", loc[q].repo, TRUE)>>
    /\ host' = host

C11_AtMostOneCreation ==
  /\ \A r \in Reqs :
       /\ Len(CreationCalls(r)) <= 1
       /\ (calls[r] # <<>> /\ calls[r][1].ok) => CreationCalls(r) = <<>>
  /\ \A r \in Reqs : \A q \in Reqs \ {r} :
       (/\ CreationCalls(r) # <<>> /\ CreationCalls(r)[1].ok
        /\ CreationCalls(q) # <<>> /\ CreationCalls(q)[1].ok) =>
         CreationCalls(r)[1].arg # CreationCalls(q)[1].arg

C11_EnsureRepoIdempotent ==
  /\ []C11_AtMostOneCreation
  /\ [][\A r \in Reqs : \A q \in Reqs \ {r} : C11_SecondCall(r, q)]_vars

C11_Witness ==
  /\ CreationCalls("r1") # <<>> /\ CreationCalls("r1")[1].ok
  /\ calls["r2"] # <<>>
  /\ calls["r2"][1] = Call("GET repo", loc["r1"].repo, TRUE)
  /\ pc["r2"] = "generate"

\* C12: writeFile, with no other writer: after a successful fetch of the
\* existing file the PUT carries the revision marker the file currently
\* has, which the host accepts as an update; after a failed fetch nothing
\* is raised and the PUT is issued without a revision marker.
C12_BeforePut(r) ==
  pc[r] = "writeFile_put" =>
    /\ calls[r] # <<>>
    /\ Last(calls[r]).api = "GET contents"
    /\ Last(calls[r]).arg = loc[r].w.path
    /\ "catch" \notin ran[r]
    /\ IF Last(calls[r]).ok
       THEN /\ HasFile(host[loc[r].repo], loc[r].w.path)
            /\ loc[r].fileSha = host[loc[r].repo].files[loc[r].w.path]
            /\ loc[r].fileSha # 0
            /\ PutAccepted(host[loc[r].repo], loc[r].w.path, loc[r].fileSha)
       ELSE loc[r].fileSha = 0

C12_PutCalls(r) ==
  \A k \in 1..Len(calls[r]) :
    calls[r][k].api = "PUT contents" =>
      /\ k > 1
      /\ calls[r][k-1].api = "GET contents"
      /\ calls[r][k-1].arg = calls[r][k].arg.path
      /\ calls[r][k-1].ok <=> calls[r][k].arg.body.sha # 0

C12_WriteStep(r) ==
  /\ (pc[r] = "writeFile" /\ pc'[r] # "writeFile") =>
       (pc'[r] = "writeFile_put" /\ logs'[r] = logs[r] /\ host' = host)
  /\ (pc[r] = "writeFile_put" /\ pc'[r] # "writeFile_put") =>
       /\ Last(calls'[r]).api = "PUT contents"
       /\ Last(calls'[r]).arg.body.sha = loc[r].fileSha
       /\ Last(calls'[r]).ok => PutAccepted(host[loc[r].repo], loc[r].w.path, loc[r].fileSha)

C12_WriteFileSha ==
  /\ [](\A r \in Single : C12_BeforePut(r) /\ C12_PutCalls(r))
  /\ [][\A r \in Single : C12_WriteStep(r)]_vars

C12_Witness ==
  \E r \in Single :
    /\ \E k \in 1..Len(calls[r]) :
         /\ calls[r][k].api = "PUT contents" /\ calls[r][k].ok
         /\ calls[r][k].arg.body.sha # 0
    /\ \E j \in 2..Len(calls[r]) :
         /\ calls[r][j].api = "PUT contents" /\ calls[r][j].arg.body.sha = 0
         /\ ~calls[r][j-1].ok

\* C13: parseDataUri returns exactly p for "data:" + m + ";base64," + p,
\* for every mime type m and base64 payload p; for a string that does not
\* have that shape it returns the empty payload without raising, and the
\* attachment loop, which calls it for every attachment with a name and a
\* non-empty url, then PUTs the attachment with empty content.
HasDataUriShape(s) ==
  \E i \in 5..(Len(s) - 8) :
    s = DataPrefix \o SubSeq(s, 6, i) \o Base64Mark \o SubSeq(s, i + 9, Len(s))

C13_AttachmentPut(content) ==
  [path |-> <<"attachments/">> \o AttName,
   body |-> [message |-> <<"add attachment ">> \o AttName, content |-> content, sha |-> 0]]

Alphanumerics == SlugChars \ {"-"}

RECURSIVE CollapseRuns(_, _)
CollapseRuns(s, inRun) ==
  IF s = <<>> THEN <<>>
  ELSE IF Head(s) \in Alphanumerics
       THEN <<Head(s)>> \o CollapseRuns(Tail(s), FALSE)
       ELSE (IF inRun THEN <<>> ELSE <<"-">>) \o CollapseRuns(Tail(s), TRUE)

C14_RunsCollapsed ==
  (pure.fun = "repoNameFromTask" /\ pure.applied) =>
    /\ pure.out = CollapseRuns(toLowerCase(pure.arg), FALSE)
    /\ \A i \in 1..Len(pure.out) : pure.out[i] \in SlugChars
    /\ \A i \in 1..(Len(pure.out) - 1) : ~(pure.out[i] = "-" /\ pure.out[i + 1] = "-")

\* C15 as stated: two requests with the same brief and the same round
\* receive the same bundle, whatever their task, nonce, email and
\* attachments are.
C15_Generated == pure.fun = "generateFromBrief" /\ pure.applied

C15_SameBriefAndRound ==
  /\ pure.arg[1].brief = pure.arg[2].brief
  /\ pure.arg[1].round = pure.arg[2].round

Contains(brief, keyword) == includes(toLowerCase(brief), keyword)

C15_ReadsTask(brief) ==
  /\ ~Contains(brief, KwCaptcha)
  /\ ~Contains(brief, KwMarkdown)
  /\ Contains(brief, KwSales) \/ Contains(brief, KwGithubUser)

\* seg is what follows the last hyphen of task (all of task if it has none)
C15_AfterLastHyphen(task, seg) ==
  /\ Len(seg) <= Len(task)
  /\ SubSeq(task, Len(task) - Len(seg) + 1, Len(task)) = seg
  /\ \A i \in 1..Len(seg) : seg[i] # "-"
  /\ Len(seg) = Len(task) \/ task[Len(task) - Len(seg)] = "-"

C15_SameSeed(a, b) ==
  \E k \in 0..Len(a) :
    LET seg == SubSeq(a, Len(a) - k + 1, Len(a)) IN
    C15_AfterLastHyphen(a, seg) /\ C15_AfterLastHyphen(b, seg)

KeywordOrder == <<KwCaptcha, KwMarkdown, KwSales, KwGithubUser>>

\* the position of the first keyword the brief contains; 0 when none
C16_FirstKeyword(brief) ==
  LET found == { k \in 1..4 : Contains(brief, KeywordOrder[k]) } IN
  IF found = {} THEN 0 ELSE CHOOSE k \in found : \A j \in found : k <= j

\* the readme headings by which the bundle of a category is recognised
C16_Readmes(k) ==
  CASE k = 1 -> { <<"# Captcha Solver">> }
    [] k = 2 -> { <<"# Markdown to HTML">>, <<"# Markdown to HTML Round 2">> }
    [] k = 3 -> { <<"# Sum of Sales">>, <<"# Sum of Sales Round 2">> }
    [] k = 4 -> { <<"# GitHub User Created">>, <<"# GitHub User Created Round 2">> }
    [] OTHER -> { <<"# Generic Task App">> }

C16_FirstMatchWins ==
  C15_Generated =>
    \A n \in 1..2 :
      pure.out[n].readme \in C16_Readmes(C16_FirstKeyword(pure.arg[n].brief))

C16_Witness ==
  /\ C15_Generated
  /\ pure.arg[1].brief = <<"M","a","r","k","d","o","w","n","S","A","L","E","S">>
  /\ pure.arg[1].round = 2
  /\ pure.out[1].readme = <<"# Markdown to HTML Round 2">>

\* C17: for a brief that contains no keyword, in every round, the bundle
\* has exactly one file, index.html, whose content embeds the brief as
\* supplied; the request writes exactly LICENSE, README.md and index.html,
\* in that order, before any attachment and before hosting is enabled.
C17_Generic(r) ==
  /\ "generate" \in ran[r]
  /\ Body(r).brief # UNDEF
  /\ C16_FirstKeyword(Body(r).brief) = 0

C17_BundlePaths == << <<"LICENSE">>, <<"README.md">>, <<"index.html">> >>

C17_Puts(r) == SelectSeq(calls[r], LAMBDA c : c.api = "PUT contents" /\ c.ok)

C17_GenericBundle ==
  \A r \in Single :
    C17_Generic(r) =>
      LET files == loc[r].generated.files
          puts == C17_Puts(r)
      IN /\ Len(files) = 1
         /\ files[1].path = <<"index.html">>
         /\ includes(files[1].content, Body(r).brief)
         /\ \A k \in 1..Len(puts) :
              IF k <= 3
              THEN puts[k].arg.path = C17_BundlePaths[k]
              ELSE Head(puts[k].arg.path) = "attachments/"
         /\ Len(puts) >= 3 => puts[3].arg.body.content = Base64Of(files[1].content)
         /\ HasCall(r, "POST pages") => Len(puts) >= 3

C17_Witness ==
  \E r \in Single :
    /\ Notified(r)
    /\ Body(r).brief = <<"H","i">>
    /\ Body(r).round = 2
    /\ PutPaths(r) = C17_BundlePaths \o << <<"attachments/">> \o AttName >>

\* C18: two accepted requests for the same task slug run unsynchronised: a
\* PUT is rejected by the (reliable) host exactly because its revision
\* marker is not the current one, the other request having written the path
\* in between; the rejected PUT is the last call of its request, which
\* ends without enabling hosting and without any notification; the
\* interleaving in which both fetched the same marker is reachable.
C18_Other(r) == CHOOSE q \in Reqs : q # r

C18_Rejected(r, k) ==
  calls[r][k].api = "PUT contents" /\ ~calls[r][k].ok

C18_AfterRejection ==
  \A r \in Reqs : \A k \in 1..Len(calls[r]) :
    C18_Rejected(r, k) =>
      /\ k = Len(calls[r])
      /\ pc[r] \in {"catch", "done"}
      /\ ~HasCall(r, "POST pages") /\ ~HasCall(r, "PUT pages")
      /\ ~HasCall(r, "POST eval")
      /\ Statuses(r) = <<200>>
      /\ \E j \in 1..Len(calls[C18_Other(r)]) :
           LET c == calls[C18_Other(r)][j] IN
           c.api = "PUT contents" /\ c.ok /\ c.arg.path = calls[r][k].arg.path

C18_PutStep(r) ==
  (pc[r] = "writeFile_put" /\ pc'[r] # "writeFile_put") =>
    /\ Last(calls'[r]).ok <=>
         PutAccepted(host[loc[r].repo], loc[r].w.path, loc[r].fileSha)
    /\ ~Last(calls'[r]).ok => (pc'[r] = "catch" /\ host' = host)

C18_UnsynchronisedWrites ==
  /\ []C18_AfterRejection
  /\ [][\A r \in Reqs : C18_PutStep(r)]_vars

C18_Witness ==
  \E r \in Reqs :
    LET q == C18_Other(r) IN
    /\ pc[r] = "done"
    /\ C18_Rejected(r, Len(calls[r]))
    /\ Last(calls[r]).arg.body.sha # 0
    /\ calls[r][Len(calls[r]) - 1].ok
    /\ \E j \in 2..Len(calls[q]) :
         /\ calls[q][j].api = "PUT contents" /\ calls[q][j].ok
         /\ calls[q][j].arg.path = Last(calls[r]).arg.path
         /\ calls[q][j].arg.body.sha = Last(calls[r]).arg.body.sha
         /\ calls[q][j-1].ok
    /\ ~HasCall(r, "POST pages") /\ ~HasCall(r, "POST eval")

\* C19: abort without rollback: when a call to the repository host fails
\* and no fallback absorbs it (the lookup of the user, the repository
\* creation, a file PUT, the hosting update after a failed create, the read
\* of the branch head), that call is the last the request makes: no later
\* step runs, no notification is attempted, the error is only logged after
\* the 200; the host is left as it was, with every file the request
\* committed still in the repository.
Propagating ==
  CreationApis \cup {"GET user", "PUT contents", "PUT pages", "GET ref"}

C19_Failed(r, k) == ~calls[r][k].ok /\ calls[r][k].api \in Propagating

C19_Aborted(r) == calls[r] # <<>> /\ C19_Failed(r, Len(calls[r]))

C19_Committed(r) ==
  \A k \in 1..Len(calls[r]) :
    (calls[r][k].api = "PUT contents" /\ calls[r][k].ok) =>
      /\ HasFile(host[loc[r].repo], calls[r][k].arg.path)
      /\ host[loc[r].repo].files[calls[r][k].arg.path] <= loc[r].lastCommit
      /\ host[loc[r].repo].head = loc[r].lastCommit

C19_AfterFailure(r) ==
  /\ \A k \in 1..Len(calls[r]) : C19_Failed(r, k) => k = Len(calls[r])
  /\ C19_Aborted(r) =>
       /\ pc[r] \in {"catch", "done"}
       /\ ~HasCall(r, "POST eval")
       /\ Statuses(r) = <<200>>
       /\ pc[r] = "done" => logs[r] = <<"Error handling request:">>
       /\ C19_Committed(r)

C19_NoRollback(r) ==
  C19_Aborted(r) =>
    /\ host' = host
    /\ calls'[r] = calls[r]
    /\ loc'[r] = loc[r]

C19_AbortWithoutRollback ==
  /\ [](\A r \in Single : C19_AfterFailure(r))
  /\ [][\A r \in Single : C19_NoRollback(r)]_vars

C19_Witness ==
  \E r \in Single :
    /\ pc[r] = "done"
    /\ calls[r] # <<>>
    /\ Last(calls[r]).api = "GET ref" /\ ~Last(calls[r]).ok
    /\ Len(PutPaths(r)) >= 3
    /\ \A k \in 1..Len(PutPaths(r)) : HasFile(host[loc[r].repo], PutPaths(r)[k])
    /\ host[loc[r].repo].pages

\* C20: enablePages first tries to create the hosting configuration; it
\* issues an update only right after a failed create, and exactly one; in
\* both cases it returns https://<owner>.github.io/<repo>/, so a repository
\* whose hosting is already enabled goes on with the same URL; when the
\* update fails too, the error propagates and the request ends there.
C20_HostingUrl(r) ==
  <<"https://">> \o GH_OWNER \o <<".github.io/">> \o loc[r].repo \o <<"/">>

C20_Count(r, api) == Len(SelectSeq(calls[r], LAMBDA c : c.api = api))

C20_HostingCalls(r) ==
  /\ C20_Count(r, "POST pages") <= 1
  /\ C20_Count(r, "PUT pages") <= 1
  /\ \A k \in 1..Len(calls[r]) :
       /\ calls[r][k].api = "PUT pages" =>
            (k > 1 /\ calls[r][k-1].api = "POST pages" /\ ~calls[r][k-1].ok)
       /\ (calls[r][k].api = "POST pages" /\ ~calls[r][k].ok) =>
            IF k = Len(calls[r])
            THEN pc[r] = "enablePages_put"
            ELSE calls[r][k+1].api = "PUT pages"
       /\ (calls[r][k].api = "PUT pages" /\ ~calls[r][k].ok) =>
            (k = Len(calls[r]) /\ pc[r] \in {"catch", "done"})
       /\ (calls[r][k].api \in {"POST pages", "PUT pages"} /\ calls[r][k].ok) =>
            loc[r].pagesUrl = C20_HostingUrl(r)

C20_HostingStep(r) ==
  /\ (pc[r] = "enablePages" /\ pc'[r] # "enablePages") =>
       /\ Last(calls'[r]).api = "POST pages"
       /\ pc'[r] = IF Last(calls'[r]).ok THEN "waitForUrl" ELSE "enablePages_put"
       /\ logs'[r] = logs[r]
  /\ (pc[r] = "enablePages_put" /\ pc'[r] # "enablePages_put") =>
       /\ Last(calls'[r]).api = "PUT pages"
       /\ pc'[r] = IF Last(calls'[r]).ok THEN "waitForUrl" ELSE "catch"
       /\ host' = host
  /\ pc'[r] = "waitForUrl" => loc'[r].pagesUrl = C20_HostingUrl(r)

C20_CreateOrUpdate ==
  /\ [](\A r \in Single : C20_HostingCalls(r))
  /\ [][\A r \in Single : C20_HostingStep(r)]_vars

C20_Witness ==
  \E r \in Single :
    /\ Notified(r)
    /\ \E k \in 1..(Len(calls[r]) - 1) :
         /\ calls[r][k].api = "POST pages" /\ ~calls[r][k].ok
         /\ calls[r][k+1].api = "PUT pages" /\ calls[r][k+1].ok
    /\ host[loc[r].repo].pages
    /\ Last(calls[r]).arg.body.pages_url = C20_HostingUrl(r)

\* C21: a bad attachment entry never aborts the workflow: a value that is
\* not an array causes no attachment write; an entry that is null or has
\* no name or no url is skipped with no remote call; every other entry is
\* fetched and PUT once at attachments/<name>, in request order; the
\* statement after the last write is the enabling of hosting, and the
\* request is aborted only by a failed call (or a missing task or brief).
C21_IsAttachment(path) == Head(path) = "attachments/"

C21_Attempts(r, api) ==
  SelectSeq(calls[r],
            LAMBDA c : c.api = api
                       /\ C21_IsAttachment(IF api = "PUT contents" THEN c.arg.path ELSE c.arg))

C21_AttachmentCalls(r) ==
  HasCall(r, "GET contents") =>
    LET wanted == WantedAttachments(Body(r))
        gets == C21_Attempts(r, "GET contents")
        puts == C21_Attempts(r, "PUT contents")
    IN /\ Len(puts) <= Len(gets) /\ Len(gets) <= Len(puts) + 1
       /\ Len(gets) <= Len(wanted)
       /\ \A k \in 1..Len(gets) : gets[k].arg = <<"attachments/">> \o wanted[k].name
       /\ \A k \in 1..Len(puts) :
            /\ puts[k].arg.path = <<"attachments/">> \o wanted[k].name
            /\ k < Len(gets) => puts[k].ok
       /\ (pc[r] = "enablePages" \/ HasCall(r, "POST pages")) =>
            (Len(puts) = Len(wanted) /\ \A k \in 1..Len(puts) : puts[k].ok)
       /\ ~Body(r).attachments.isArray => gets = <<>>

C21_AbortedByCall(r) ==
  ("catch" \in ran[r] /\ "ack" \in ran[r]) =>
    \/ Body(r).task = UNDEF
    \/ Body(r).brief = UNDEF
    \/ calls[r] # <<>> /\ ~Last(calls[r]).ok

C21_AfterWrite(r) ==
  (pc[r] = "writeFile_put" /\ pc'[r] \notin {"writeFile_put", "catch"}) =>
    LET expected == ExpectedPaths(Body(r))
        n == Len(PutPaths(r)) + 1
    IN /\ calls'[r] = Append(calls[r], Last(calls'[r]))
       /\ Last(calls'[r]).arg.path = expected[n]
       /\ IF n = Len(expected)
          THEN pc'[r] = "enablePages"
          ELSE pc'[r] = "writeFile" /\ loc'[r].w.path = expected[n + 1]

C21_AttachmentsNeverAbort ==
  /\ [](\A r \in Single : C21_AttachmentCalls(r) /\ C21_AbortedByCall(r))
  /\ [][\A r \in Single : C21_AfterWrite(r)]_vars

C21_Witness ==
  \E r \in Single :
    /\ Notified(r)
    /\ Body(r).attachments.isArray
    /\ Body(r).attachments.items = MixedAtts
    /\ Len(C21_Attempts(r, "PUT contents")) = 2
    /\ C21_Attempts(r, "PUT contents")[1].arg.path = <<"attachments/">> \o OtherName
    /\ C21_Attempts(r, "PUT contents")[1].arg.body.content = <<>>
    /\ C21_Attempts(r, "PUT contents")[2].arg.path = <<"attachments/">> \o AttName

\* C22: for the markdown, sales and github user categories round 1 yields
\* the round-1 bundle and every round from 2 on yields the round-2 bundle
\* (two requests that differ in the round only get the same bundle iff
\* their rounds are equal or both at least 2); the captcha-solver category
\* yields one bundle whatever the round.
C22_Readme(k, round) ==
  CASE k = 2 -> IF round = 1 THEN <<"# Markdown to HTML">>
                ELSE <<"# Markdown to HTML Round 2">>
    [] k = 3 -> IF round = 1 THEN <<"# Sum of Sales">>
                ELSE <<"# Sum of Sales Round 2">>
    [] k = 4 -> IF round = 1 THEN <<"# GitHub User Created">>
                ELSE <<"# GitHub User Created Round 2">>

C22_RoundBundles ==
  C15_Generated =>
    LET a == pure.arg[1]
        b == pure.arg[2]
        k == C16_FirstKeyword(a.brief)
    IN /\ k = 1 => pure.out[1] = pure.out[2]
       /\ k \in {2, 3, 4} =>
            /\ pure.out[1].readme = C22_Readme(k, a.round)
            /\ pure.out[2].readme = C22_Readme(k, b.round)
            /\ a.task = b.task =>
                 /\ pure.out[1] = pure.out[2] <=>
                      (a.round = b.round \/ (a.round >= 2 /\ b.round >= 2))
                 /\ pure.out[1].files = pure.out[2].files <=>
                      (a.round = b.round \/ (a.round >= 2 /\ b.round >= 2))

C22_Witness ==
  /\ C15_Generated
  /\ pure.arg[1].brief = <<"M","a","r","k","d","o","w","n">>
  /\ pure.arg[1].round = 2
  /\ pure.arg[2].round = 4
  /\ pure.out[1] = pure.out[2]
  /\ pure.out[2].readme = <<"# Markdown to HTML Round 2">>

\* C23: under the fairness of SpecFair every accepted request reaches the
\* end of its orchestration, whatever the remote services answer, and it
\* ends notified, abandoned after five failed notification attempts, or
\* aborted by a failed step; every step moves forward in the workflow
\* except the three loop back-edges, each of them bounded: the hosting
\* poll (started only below 120 s, its pause advancing the clock by 2 s),
\* the notification retry (at most 5 attempts, each counted) and the
\* iteration over the finite list of files (one accepted write each).
C23_Order ==
  << "idle", "handler", "readJson", "verify", "ack", "processRequest",
     "ensureRepo", "ensureRepo_user", "ensureRepo_create", "generate",
     "writeFile", "writeFile_put", "enablePages", "enablePages_put",
     "waitForUrl", "waitForUrl_sleep", "getLatestCommitSha",
     "postWithRetry", "postWithRetry_sleep", "catch", "done" >>

C23_Position(p) == CHOOSE k \in 1..Len(C23_Order) : C23_Order[k] = p

C23_Accepted(r) == "ack" \in ran[r]

C23_Abandoned(r) ==
  /\ pc[r] = "done"
  /\ Len(EvalCalls(r)) = MaxAttempts
  /\ \A j \in 1..MaxAttempts : ~EvalCalls(r)[j].ok

C23_Aborted(r) == pc[r] = "done" /\ "catch" \in ran[r]

C23_Outcome(r) ==
  /\ pc[r] \in { C23_Order[k] : k \in 1..Len(C23_Order) }
  /\ Len(EvalCalls(r)) <= MaxAttempts
  /\ loc[r].attempt <= MaxAttempts
  /\ (C23_Accepted(r) /\ pc[r] = "done") =>
       (Notified(r) \/ C23_Abandoned(r) \/ C23_Aborted(r))

C23_Step(r) ==
  pc'[r] # pc[r] =>
    CASE pc[r] = "waitForUrl_sleep" /\ pc'[r] = "waitForUrl" ->
           loc'[r].elapsed >= loc[r].elapsed + PollPause
      [] pc[r] = "waitForUrl" /\ pc'[r] = "waitForUrl_sleep" ->
           loc[r].elapsed < WaitTimeout /\ loc'[r].elapsed >= loc[r].elapsed
      [] pc[r] = "postWithRetry_sleep" /\ pc'[r] = "postWithRetry" ->
           loc'[r].attempt = loc[r].attempt + 1
      [] pc[r] = "postWithRetry" /\ pc'[r] = "postWithRetry_sleep" ->
           /\ loc[r].attempt < MaxAttempts
           /\ Len(EvalCalls(r))' = loc[r].attempt + 1
      [] pc[r] = "writeFile_put" /\ pc'[r] = "writeFile" ->
           /\ Last(calls'[r]).api = "PUT contents"
           /\ Last(calls'[r]).ok
           /\ Len(PutPaths(r))' = Len(PutPaths(r)) + 1
           /\ Len(PutPaths(r))' < Len(ExpectedPaths(req[r].body))
      [] OTHER -> C23_Position(pc'[r]) > C23_Position(pc[r])

C24_Text(body) ==
  CASE body = "ok" -> <<"o","k">>
    [] body = "Method not allowed" ->
         <<"M","e","t","h","o","d"," ","n","o","t"," ","a","l","l","o","w","e","d">>
    [] body = "Invalid secret" ->
         <<"I","n","v","a","l","i","d"," ","s","e","c","r","e","t">>
    [] body = "Internal server error" ->
         <<"I","n","t","e","r","n","a","l"," ","s","e","r","v","e","r"," ",
           "e","r","r","o","r">>

C24_HoldsSecret(r, response) ==
  IF "diagnostic" \in ran[r]
  THEN \/ includes(response.body.secret_seen_by_server, secret)
       \/ includes(response.body.owner_seen_by_server, secret)
  ELSE includes(C24_Text(response.body), secret)

\* the caller did not send the secret of the configuration
C24_NotSupplied(request, configured) ==
  request.body.kind # "value" \/ SecretRejected(request.body, configured)

\* what the orchestrating handler answers a request under a configuration
C24_Answer(request, configured) ==
  IF ~MethodAllowed(request.method)
  THEN << Response(405, "Method not allowed") >>
  ELSE IF request.body.kind \in {"unparseable", "null"}
       THEN << Response(500, "Internal server error") >>
       ELSE IF SecretRejected(request.body, configured)
            THEN << Response(401, "Invalid secret") >>
            ELSE << Response(200, "ok") >>

C24_Responses(r, configured) ==
  IF "diagnostic" \in ran[r]
  THEN << Response(200, DiagnosticBody(configured, GH_OWNER)) >>
  ELSE C24_Answer(req[r], configured)

C24_SecretNeverDisclosed ==
  \A r \in Single :
    /\ Truthy(secret) =>
         \A k \in 1..Len(resp[r]) : ~C24_HoldsSecret(r, resp[r][k])
    /\ (pc[r] = "done" /\ C24_NotSupplied(req[r], secret)) =>
         \A other \in Secrets :
           C24_NotSupplied(req[r], other) => resp[r] = C24_Responses(r, other)

====
